---- MODULE Spec2Model ----
(***************************************************************************)
(* Authentication / authorization core of the FastAPI clean-architecture   *)
(* service: credential store, password hasher, token codec, auth service,  *)
(* access-control guard (app/core/deps.py) and the users / items services. *)
(* One action per HTTP operation: guard dependencies of the route, then    *)
(* the service method, then the repository write and its commit.           *)
(***************************************************************************)
EXTENDS Integers, FiniteSets, Sequences, TLC

VARIABLES
    users,       \* principal table: set of user rows
    items,       \* resource table: set of item rows
    nextUserId,  \* users.id sequence (ids are never reused)
    nextItemId,  \* items.id sequence
    tokens,      \* bearer tokens minted by login so far (held by clients)
    now,         \* wall clock, in token time units
    last,        \* the last request handled and the response it got
    pending,     \* handlers suspended at an awaited store call, awaiting the write
    issued,      \* history: for each token minted, the id login minted it for
    lifespan,    \* where the start-up hook of main.py stands
    rate_limit_storage,  \* middleware.rate_limit_storage: client_ip -> RateLimitInfo
    forwarded    \* history: calls of call_next per client_ip and window_start

(* The state that lives outside the request handlers *)
outside == <<lifespan, rate_limit_storage, forwarded>>

vars == <<users, items, nextUserId, nextItemId, tokens, now, last, pending,
          issued, outside>>

----------------------------------------------------------------------------
(* Bounds of the model *)

MaxUsers == 2     \* user ids ever allocated by create operations
MaxItems == 2     \* item ids ever allocated
MaxTime == 3      \* last clock value
MaxTokens == 2    \* tokens minted by login
MaxPending == 2   \* register requests in flight at once

(* max_length of an item title (200), scaled to the title alphabet *)
MaxTitleLength == 2

(* settings.access_token_expire_minutes, in clock ticks *)
TokenTTL == 2

(* RateLimitMiddleware(calls=100, period=60), scaled to the clock *)
calls == 2
period == 2

(* Input alphabets *)
AdminUsername == "admin"
AdminEmail == "admin@x.com"
AdminPassword == "adminpw"
Usernames == {"alice", AdminUsername}
Emails == {"a@x.com", AdminEmail}
Passwords == {"pw123456", "wrongpw"}
Null == "<NULL>"

(* Titles are character sequences; None in the title column is NullTitle *)
Chars == {" ", "b"}
NullTitle == <<Null>>
Titles == {<<"b">>}
Descriptions == {"d"}
ClientIps == {"10.0.0.1", "10.0.0.2"}

UserIds == 1..(MaxUsers + 1)
ItemIds == 1..(MaxItems + 1)

----------------------------------------------------------------------------
(* Outcomes: an HTTPException as raised, or a normal return *)

HTTPException(status_code, detail, headers) ==
    [status |-> status_code, detail |-> detail, code |-> "", hdr |-> headers]

CustomHTTPException(status_code, detail, error_code) ==
    [status |-> status_code, detail |-> detail, code |-> error_code, hdr |-> ""]

Returned(status_code) ==
    [status |-> status_code, detail |-> "", code |-> "", hdr |-> ""]

(* RequestValidationError, as rendered by the validation handler *)
ValidationError ==
    [status |-> 422, detail |-> "Validation failed", code |-> "validation_error",
     hdr |-> ""]

(* IntegrityError raised by commit, as rendered by the SQLAlchemy handler *)
IntegrityError ==
    [status |-> 409, detail |-> "Data integrity constraint violated",
     code |-> "database_constraint_error", hdr |-> ""]

IsError(out) == out.status >= 400

----------------------------------------------------------------------------
(* Password hasher and token codec *)

get_password_hash(password) == <<"hashed", password>>

verify_password(plain_password, hashed_password) ==
    hashed_password = <<"hashed", plain_password>>

create_access_token(sub, t) == [sub |-> sub, exp |-> t + TokenTTL, sig |-> TRUE]

NoSubject == ""

verify_token(token, t) ==
    IF token.sig /\ token.exp >= t THEN token.sub ELSE NoSubject

NoToken == [sub |-> NoSubject, exp |-> 0, sig |-> FALSE]

----------------------------------------------------------------------------
(* Rows and queries *)

NoUser == [id |-> 0]
NoItem == [id |-> 0]

User(id, email, username, hashed_password, is_active, is_superuser) ==
    [id |-> id, email |-> email, username |-> username,
     hashed_password |-> hashed_password,
     is_active |-> is_active, is_superuser |-> is_superuser]

Item(id, title, description, owner_id) ==
    [id |-> id, title |-> title, description |-> description, owner_id |-> owner_id]

ScalarOneOrNone(rows, none) == IF rows = {} THEN none ELSE CHOOSE r \in rows : TRUE

get_user_by_username(us, username) ==
    ScalarOneOrNone({u \in us : u.username = username}, NoUser)

get_user_by_email(us, email) ==
    ScalarOneOrNone({u \in us : u.email = email}, NoUser)

get(rows, id, none) == ScalarOneOrNone({r \in rows : r.id = id}, none)

(* unique index on users.email and users.username, NOT NULL columns *)
UsersConstraintOk(us) ==
    /\ \A u \in us : u.email # Null /\ u.username # Null
    /\ \A u, v \in us : u.id # v.id => u.email # v.email /\ u.username # v.username

(* items.title NOT NULL, items.owner_id NOT NULL REFERENCES users.id *)
ItemsConstraintOk(us, its) ==
    \A i \in its : i.title # NullTitle /\ \E u \in us : u.id = i.owner_id

----------------------------------------------------------------------------
(* Access-control guard: app/core/deps.py *)

NoExc == Returned(200)

credentials_exception ==
    CustomHTTPException(401, "Could not validate credentials", "INVALID_CREDENTIALS")

(* variant: the subject is read from the token without checking its expiry *)
get_current_user_unverified(us, token, t) ==
    LET username == IF token.sig THEN token.sub ELSE NoSubject IN
    IF username = NoSubject
    THEN [user |-> NoUser, exc |-> credentials_exception]
    ELSE LET user == get_user_by_username(us, username) IN
         IF user = NoUser
         THEN [user |-> NoUser, exc |-> credentials_exception]
         ELSE [user |-> user, exc |-> NoExc]

(* variant: a subject that matches no principal is reported as such *)
get_current_user_reports_missing(us, token, t) ==
    LET username == verify_token(token, t) IN
    IF username = NoSubject
    THEN [user |-> NoUser, exc |-> credentials_exception]
    ELSE LET user == get_user_by_username(us, username) IN
         IF user = NoUser
         THEN [user |-> NoUser,
               exc |-> CustomHTTPException(404, "User not found", "USER_NOT_FOUND")]
         ELSE [user |-> user, exc |-> NoExc]

get_current_user(us, token, t) ==
    LET username == verify_token(token, t) IN
    IF username = NoSubject
    THEN [user |-> NoUser, exc |-> credentials_exception]
    ELSE LET user == get_user_by_username(us, username) IN
         IF user = NoUser
         THEN [user |-> NoUser, exc |-> credentials_exception]
         ELSE [user |-> user, exc |-> NoExc]

(* variant: is_active is not looked at *)
get_current_active_user_unchecked(us, token, t) == get_current_user(us, token, t)

(* variant: an inactive principal is turned away as unauthenticated *)
get_current_active_user_401(us, token, t) ==
    LET g == get_current_user(us, token, t) IN
    IF IsError(g.exc) THEN g
    ELSE IF ~g.user.is_active
    THEN [user |-> NoUser, exc |-> credentials_exception]
    ELSE g

get_current_active_user(us, token, t) ==
    LET g == get_current_user(us, token, t) IN
    IF IsError(g.exc) THEN g
    ELSE IF ~g.user.is_active
    THEN [user |-> NoUser,
          exc |-> CustomHTTPException(403, "Inactive user", "USER_INACTIVE")]
    ELSE g

(* variant: a non-superuser is turned away as unauthenticated *)
get_superuser_401(us, token, t) ==
    LET g == get_current_active_user(us, token, t) IN
    IF IsError(g.exc) THEN g
    ELSE IF ~g.user.is_superuser
    THEN [user |-> NoUser, exc |-> credentials_exception]
    ELSE g

get_superuser(us, token, t) ==
    LET g == get_current_active_user(us, token, t) IN
    IF IsError(g.exc) THEN g
    ELSE IF ~g.user.is_superuser
    THEN [user |-> NoUser,
          exc |-> CustomHTTPException(403, "Not enough permissions",
                                      "INSUFFICIENT_PERMISSIONS")]
    ELSE g

(* A SQLAlchemyError that is not an IntegrityError (the connection is lost), *)
(* as rendered by the SQLAlchemy handler                                    *)
DatabaseError ==
    [status |-> 500, detail |-> "Database operation failed",
     code |-> "database_error", hdr |-> ""]

(* get_current_user when the store may be unreachable: db.execute raises    *)
(* inside the try block and the except clause answers for it                *)
get_current_user_db(us, token, t, db_up) ==
    LET username == verify_token(token, t) IN
    IF username = NoSubject
    THEN [user |-> NoUser, exc |-> credentials_exception]
    ELSE IF ~db_up
    THEN [user |-> NoUser, exc |-> credentials_exception]
    ELSE get_current_user(us, token, t)

----------------------------------------------------------------------------
(* Schemas: what a validated payload keeps of the request body *)

Restrict(f, S) == [k \in (DOMAIN f) \cap S |-> f[k]]

(* variant: the schema keeps keys it does not declare *)
UserCreate_allow_extra(body) == body

(* UserCreate: email, username, (full_name,) password; other keys are dropped *)
UserCreate(body) == Restrict(body, {"email", "username", "password"})

(* UserUpdate.dict(exclude_unset=True): the keys that were sent, of these *)
UserUpdate(body) ==
    Restrict(body, {"email", "username", "is_active", "is_superuser"})

(* str.strip() *)
RECURSIVE lstrip(_)
lstrip(v) == IF v # <<>> /\ Head(v) = " " THEN lstrip(Tail(v)) ELSE v

RECURSIVE rstrip(_)
rstrip(v) ==
    IF v # <<>> /\ v[Len(v)] = " " THEN rstrip(SubSeq(v, 1, Len(v) - 1)) ELSE v

strip(v) == rstrip(lstrip(v))

(* Field(min_length=1, max_length=...) on a title *)
TitleFieldOk(v) == Len(v) >= 1 /\ Len(v) <= MaxTitleLength

(* ItemBase.validate_title: runs after the Field constraints *)
validate_title(v) ==
    LET w == strip(v) IN
    [ok |-> Len(w) >= 1 /\ Len(w) <= MaxTitleLength, value |-> w]

(* ItemCreate accepts the body: title is required, a str within the Field *)
(* bounds, and validate_title does not raise                              *)
ItemCreateValid(body) ==
    /\ "title" \in DOMAIN body
    /\ body.title # NullTitle
    /\ TitleFieldOk(body.title)
    /\ validate_title(body.title).ok

(* ItemCreate(...).dict(): title as validate_title returned it, description *)
(* None unless sent; owner_id is not a field                               *)
ItemCreate(body) ==
    [title |-> validate_title(body.title).value,
     description |-> IF "description" \in DOMAIN body THEN body.description ELSE Null]

(* variant: the update schema keeps keys it does not declare *)
ItemUpdate_allow_extra(body) == body

(* variant: dict() without exclude_unset, so an unset field arrives as None *)
ItemUpdate_unset_as_none(body) ==
    [title |-> IF "title" \in DOMAIN body THEN body.title ELSE NullTitle,
     description |-> IF "description" \in DOMAIN body THEN body.description ELSE Null]

(* ItemUpdate accepts the body: title is Optional, None passes, a str must *)
(* be within the Field bounds; there is no validator                       *)
ItemUpdateValid(body) ==
    "title" \in DOMAIN body =>
        (body.title = NullTitle \/ TitleFieldOk(body.title))

(* ItemUpdate.dict(exclude_unset=True) *)
ItemUpdate(body) == Restrict(body, {"title", "description"})

----------------------------------------------------------------------------
(* Repositories *)

(* Column defaults of the users table for columns the INSERT leaves out *)
UserColumnDefaults == [is_active |-> TRUE, is_superuser |-> FALSE]

UserColumns ==
    {"id", "email", "username", "hashed_password", "is_active", "is_superuser"}

(* AuthRepository.create_user_with_hashed_password: the row it adds *)
create_user_with_hashed_password(id, user_data, hashed_password) ==
    User(id, user_data.email, user_data.username, hashed_password, TRUE, FALSE)

(* UserRepository.create_user: the row is built from user_dict, password replaced by its hash *)
create_user_row(id, user_data, hashed_password) ==
    LET user_dict == [k \in ((DOMAIN user_data) \ {"password"})
                            \cup {"id", "hashed_password"} |->
                         IF k = "id" THEN id
                         ELSE IF k = "hashed_password" THEN hashed_password
                         ELSE user_data[k]]
    IN [c \in UserColumns |->
          IF c \in DOMAIN user_dict THEN user_dict[c] ELSE UserColumnDefaults[c]]

(* BaseRepository.update: setattr for every key sent that the row has *)
update(db_obj, obj_data) ==
    [c \in DOMAIN db_obj |-> IF c \in DOMAIN obj_data THEN obj_data[c] ELSE db_obj[c]]

(* ItemRepository.create_item: the row is built from item_dict with owner_id forced *)
create_item_row(id, item_data, owner_id) ==
    Item(id, item_data.title, item_data.description, owner_id)

----------------------------------------------------------------------------
(* Commit: the store's constraint layer accepts the write or raises *)

(* variant: items.owner_id does not reference users.id *)
CommitUsers_no_foreign_key(us_new, its, us_old) ==
    IF UsersConstraintOk(us_new)
    THEN [users |-> us_new, ok |-> TRUE]
    ELSE [users |-> us_old, ok |-> FALSE]

(* variant: the users table has no unique index *)
CommitUsers_no_unique_index(us_new, its, us_old) ==
    IF (\A u \in us_new : u.email # Null /\ u.username # Null)
       /\ ItemsConstraintOk(us_new, its)
    THEN [users |-> us_new, ok |-> TRUE]
    ELSE [users |-> us_old, ok |-> FALSE]

CommitUsers(us_new, its, us_old) ==
    IF UsersConstraintOk(us_new) /\ ItemsConstraintOk(us_new, its)
    THEN [users |-> us_new, ok |-> TRUE]
    ELSE [users |-> us_old, ok |-> FALSE]

CommitItems(us, its_new, its_old) ==
    IF ItemsConstraintOk(us, its_new)
    THEN [items |-> its_new, ok |-> TRUE]
    ELSE [items |-> its_old, ok |-> FALSE]

----------------------------------------------------------------------------
(* AuthService: app/services/auth.py (AuthController has the same logic) *)

(* variant: the token's subject is the e-mail address *)
login_sub_email(us, login_data, t) ==
    LET user == get_user_by_username(us, login_data.username) IN
    IF user = NoUser \/ ~verify_password(login_data.password, user.hashed_password)
    THEN [out |-> HTTPException(401, "Invalid username or password", "Bearer"),
          token |-> NoToken]
    ELSE IF ~user.is_active
    THEN [out |-> HTTPException(401, "Account is disabled", ""), token |-> NoToken]
    ELSE [out |-> Returned(200), token |-> create_access_token(user.email, t)]

(* variant: an unknown username is reported as such *)
login_distinguish(us, login_data, t) ==
    LET user == get_user_by_username(us, login_data.username) IN
    IF user = NoUser
    THEN [out |-> HTTPException(404, "User not found", ""), token |-> NoToken]
    ELSE IF ~verify_password(login_data.password, user.hashed_password)
    THEN [out |-> HTTPException(401, "Invalid username or password", "Bearer"),
          token |-> NoToken]
    ELSE IF ~user.is_active
    THEN [out |-> HTTPException(401, "Account is disabled", ""), token |-> NoToken]
    ELSE [out |-> Returned(200), token |-> create_access_token(user.username, t)]

(* variant: the is_active check is missing *)
login_no_active_check(us, login_data, t) ==
    LET user == get_user_by_username(us, login_data.username) IN
    IF user = NoUser \/ ~verify_password(login_data.password, user.hashed_password)
    THEN [out |-> HTTPException(401, "Invalid username or password", "Bearer"),
          token |-> NoToken]
    ELSE [out |-> Returned(200), token |-> create_access_token(user.username, t)]

login(us, login_data, t) ==
    LET user == get_user_by_username(us, login_data.username) IN
    IF user = NoUser \/ ~verify_password(login_data.password, user.hashed_password)
    THEN [out |-> HTTPException(401, "Invalid username or password", "Bearer"),
          token |-> NoToken]
    ELSE IF ~user.is_active
    THEN [out |-> HTTPException(401, "Account is disabled", ""), token |-> NoToken]
    ELSE [out |-> Returned(200), token |-> create_access_token(user.username, t)]

(* register up to its first write: the two existence checks *)
register_precheck(us, user_data) ==
    IF get_user_by_email(us, user_data.email) # NoUser
    THEN HTTPException(409, "Email already registered", "")
    ELSE IF get_user_by_username(us, user_data.username) # NoUser
    THEN HTTPException(409, "Username already taken", "")
    ELSE NoExc

(* register from the hash on: the insert and its commit; nothing catches *)
(* the IntegrityError, which reaches the SQLAlchemy handler              *)
register_write(us, its, id, user_data) ==
    LET hashed_password == get_password_hash(user_data.password)
        row == create_user_with_hashed_password(id, user_data, hashed_password)
        c == CommitUsers(us \cup {row}, its, us)
    IN [users |-> c.users, out |-> IF c.ok THEN Returned(201) ELSE IntegrityError]

(* variant: the username is checked before the e-mail address *)
register_username_first(us, its, id, user_data) ==
    IF get_user_by_username(us, user_data.username) # NoUser
    THEN [users |-> us, out |-> HTTPException(409, "Username already taken", "")]
    ELSE IF get_user_by_email(us, user_data.email) # NoUser
    THEN [users |-> us, out |-> HTTPException(409, "Email already registered", "")]
    ELSE LET hashed_password == get_password_hash(user_data.password)
             row == create_user_with_hashed_password(id, user_data, hashed_password)
             c == CommitUsers(us \cup {row}, its, us)
         IN [users |-> c.users,
             out |-> IF c.ok THEN Returned(201) ELSE IntegrityError]

register(us, its, id, user_data) ==
    IF get_user_by_email(us, user_data.email) # NoUser
    THEN [users |-> us, out |-> HTTPException(409, "Email already registered", "")]
    ELSE IF get_user_by_username(us, user_data.username) # NoUser
    THEN [users |-> us, out |-> HTTPException(409, "Username already taken", "")]
    ELSE LET hashed_password == get_password_hash(user_data.password)
             row == create_user_with_hashed_password(id, user_data, hashed_password)
             c == CommitUsers(us \cup {row}, its, us)
         IN [users |-> c.users,
             out |-> IF c.ok THEN Returned(201) ELSE IntegrityError]

----------------------------------------------------------------------------
(* UsersService: app/services/users.py *)

Forbidden == HTTPException(403, "Not enough permissions", "")

get_users(us, current_user) ==
    IF ~current_user.is_superuser THEN Forbidden ELSE Returned(200)

get_user_by_id(us, user_id, current_user) ==
    IF user_id # current_user.id /\ ~current_user.is_superuser
    THEN Forbidden
    ELSE IF get(us, user_id, NoUser) = NoUser
    THEN HTTPException(404, "User not found", "")
    ELSE Returned(200)

create_user(us, its, id, user_data, current_user) ==
    IF ~current_user.is_superuser
    THEN [users |-> us, out |-> Forbidden]
    ELSE IF get_user_by_email(us, user_data.email) # NoUser
    THEN [users |-> us, out |-> HTTPException(409, "Email already registered", "")]
    ELSE IF get_user_by_username(us, user_data.username) # NoUser
    THEN [users |-> us, out |-> HTTPException(409, "Username already taken", "")]
    ELSE LET hashed_password == get_password_hash(user_data.password)
             row == create_user_row(id, user_data, hashed_password)
             c == CommitUsers(us \cup {row}, its, us)
         IN [users |-> c.users,
             out |-> IF c.ok THEN Returned(201) ELSE IntegrityError]

(* variant: the target is looked up before the permission check *)
update_user_lookup_first(us, its, user_id, user_data, current_user) ==
    LET user == get(us, user_id, NoUser) IN
    IF user = NoUser
    THEN [users |-> us, out |-> HTTPException(404, "User not found", "")]
    ELSE IF user_id # current_user.id /\ ~current_user.is_superuser
    THEN [users |-> us, out |-> HTTPException(403, "Not enough permissions", "")]
    ELSE LET c == CommitUsers((us \ {user}) \cup {update(user, user_data)},
                              its, us)
         IN [users |-> c.users,
             out |-> IF c.ok THEN Returned(200) ELSE IntegrityError]

update_user(us, its, user_id, user_data, current_user) ==
    IF user_id # current_user.id /\ ~current_user.is_superuser
    THEN [users |-> us, out |-> Forbidden]
    ELSE LET user == get(us, user_id, NoUser) IN
         IF user = NoUser
         THEN [users |-> us, out |-> HTTPException(404, "User not found", "")]
         ELSE LET c == CommitUsers((us \ {user}) \cup {update(user, user_data)},
                                   its, us)
              IN [users |-> c.users,
                  out |-> IF c.ok THEN Returned(200) ELSE IntegrityError]

(* variant: the own-account check is missing; the policy is as in delete_user *)
delete_user_no_self_check(us, its, user_id, current_user, policy) ==
    IF ~current_user.is_superuser
    THEN [users |-> us, items |-> its,
          out |-> HTTPException(403, "Not enough permissions", "")]
    ELSE LET user == get(us, user_id, NoUser) IN
         IF user = NoUser
         THEN [users |-> us, items |-> its,
               out |-> HTTPException(404, "User not found", "")]
         ELSE LET its_new == IF policy = "cascade"
                             THEN {i \in its : i.owner_id # user_id}
                             ELSE its
                  c == CommitUsers(us \ {user}, its_new, us)
              IN [users |-> c.users,
                  items |-> IF c.ok THEN its_new ELSE its,
                  out |-> IF c.ok THEN Returned(200) ELSE IntegrityError]

(* What deleting a user row does to the items it owns is decided by the     *)
(* relationship declared on the User model: the rows go with it, or the     *)
(* flush is refused by items.owner_id.                                      *)
OnDeletePolicies == {"cascade", "restrict"}

delete_user(us, its, user_id, current_user, policy) ==
    IF ~current_user.is_superuser
    THEN [users |-> us, items |-> its, out |-> Forbidden]
    ELSE IF user_id = current_user.id
    THEN [users |-> us, items |-> its,
          out |-> HTTPException(400, "Cannot delete your own account", "")]
    ELSE LET user == get(us, user_id, NoUser) IN
         IF user = NoUser
         THEN [users |-> us, items |-> its,
               out |-> HTTPException(404, "User not found", "")]
         ELSE LET its_new == IF policy = "cascade"
                             THEN {i \in its : i.owner_id # user_id}
                             ELSE its
                  c == CommitUsers(us \ {user}, its_new, us)
              IN [users |-> c.users,
                  items |-> IF c.ok THEN its_new ELSE its,
                  out |-> IF c.ok THEN Returned(200) ELSE IntegrityError]

(* delete_user up to its awaited store call: the two checks on the caller *)
delete_user_precheck(user_id, current_user) ==
    IF ~current_user.is_superuser
    THEN Forbidden
    ELSE IF user_id = current_user.id
    THEN HTTPException(400, "Cannot delete your own account", "")
    ELSE NoExc

(* delete_user from user_repository.delete on: the row is read, deleted and *)
(* the deletion committed; the caller is not looked at again                *)
delete_user_write(us, its, user_id, policy) ==
    LET user == get(us, user_id, NoUser) IN
    IF user = NoUser
    THEN [users |-> us, items |-> its,
          out |-> HTTPException(404, "User not found", "")]
    ELSE LET its_new == IF policy = "cascade"
                        THEN {i \in its : i.owner_id # user_id}
                        ELSE its
             c == CommitUsers(us \ {user}, its_new, us)
         IN [users |-> c.users,
             items |-> IF c.ok THEN its_new ELSE its,
             out |-> IF c.ok THEN Returned(200) ELSE IntegrityError]

----------------------------------------------------------------------------
(* ItemsService: app/services/items.py (ItemsController has the same logic) *)

(* get_items / get_items_without_owner: the page of items, no caller involved *)
get_items(its) == Returned(200)

get_item_by_id(its, item_id) ==
    IF get(its, item_id, NoItem) = NoItem
    THEN HTTPException(404, "Item not found", "")
    ELSE Returned(200)

create_item(us, its, id, item_data, current_user) ==
    LET c == CommitItems(us, its \cup {create_item_row(id, item_data, current_user.id)},
                         its)
    IN [items |-> c.items, out |-> IF c.ok THEN Returned(201) ELSE IntegrityError]

(* variant: ownership is decided before the item is known to exist *)
update_item_owner_first(us, its, item_id, item_data, current_user) ==
    LET item == get(its, item_id, NoItem) IN
    IF (item = NoItem \/ item.owner_id # current_user.id) /\ ~current_user.is_superuser
    THEN [items |-> its, out |-> HTTPException(403, "Not enough permissions", "")]
    ELSE IF item = NoItem
    THEN [items |-> its, out |-> HTTPException(404, "Item not found", "")]
    ELSE LET c == CommitItems(us, (its \ {item}) \cup {update(item, item_data)}, its)
         IN [items |-> c.items,
             out |-> IF c.ok THEN Returned(200) ELSE IntegrityError]

update_item(us, its, item_id, item_data, current_user) ==
    LET item == get(its, item_id, NoItem) IN
    IF item = NoItem
    THEN [items |-> its, out |-> HTTPException(404, "Item not found", "")]
    ELSE IF item.owner_id # current_user.id /\ ~current_user.is_superuser
    THEN [items |-> its, out |-> Forbidden]
    ELSE LET c == CommitItems(us, (its \ {item}) \cup {update(item, item_data)}, its)
         IN [items |-> c.items,
             out |-> IF c.ok THEN Returned(200) ELSE IntegrityError]

(* variant: the row is deleted before the ownership check answers *)
delete_item_delete_first(us, its, item_id, current_user) ==
    LET item == get(its, item_id, NoItem) IN
    IF item = NoItem
    THEN [items |-> its, out |-> HTTPException(404, "Item not found", "")]
    ELSE IF item.owner_id # current_user.id /\ ~current_user.is_superuser
    THEN [items |-> its \ {item}, out |-> Forbidden]
    ELSE [items |-> its \ {item}, out |-> Returned(200)]

delete_item(us, its, item_id, current_user) ==
    LET item == get(its, item_id, NoItem) IN
    IF item = NoItem
    THEN [items |-> its, out |-> HTTPException(404, "Item not found", "")]
    ELSE IF item.owner_id # current_user.id /\ ~current_user.is_superuser
    THEN [items |-> its, out |-> Forbidden]
    ELSE [items |-> its \ {item}, out |-> Returned(200)]

----------------------------------------------------------------------------
(* RateLimitMiddleware: app/core/middleware.py *)

(* RateLimitInfo.__init__: a falsy window_start is replaced by the time *)
RateLimitInfo(requests, window_start, t) ==
    [requests |-> requests,
     window_start |-> IF window_start = 0 THEN t ELSE window_start]

(* The 429 response of the middleware *)
TooManyRequests(retry_after) ==
    [status |-> 429, detail |-> "Too many requests", code |-> "rate_limit_exceeded",
     hdr |-> "", retry_after |-> retry_after]

(* The storage with rate_limit_storage[client_ip] = rate_info *)
Stored(storage, client_ip, rate_info) ==
    [ip \in (DOMAIN storage) \cup {client_ip} |->
        IF ip = client_ip THEN rate_info ELSE storage[ip]]

(* variant: the limit is compared with > instead of >= *)
dispatch_limit_after(storage, client_ip, current_time) ==
    IF client_ip \in DOMAIN storage
    THEN LET old == storage[client_ip]
             rate_info == IF current_time - old.window_start > period
                          THEN [requests |-> 0, window_start |-> current_time]
                          ELSE old
         IN IF rate_info.requests > calls
            THEN [storage |-> Stored(storage, client_ip, rate_info),
                  limited |-> TRUE,
                  response |-> TooManyRequests(
                      period - (current_time - rate_info.window_start))]
            ELSE [storage |-> Stored(storage, client_ip,
                                     [rate_info EXCEPT !.requests = @ + 1]),
                  limited |-> FALSE, response |-> NoExc]
    ELSE [storage |-> Stored(storage, client_ip,
                             RateLimitInfo(1, current_time, current_time)),
          limited |-> FALSE, response |-> NoExc]

(* variant: an elapsed window is not started again *)
dispatch_no_reset(storage, client_ip, current_time) ==
    IF client_ip \in DOMAIN storage
    THEN LET rate_info == storage[client_ip] IN
         IF rate_info.requests >= calls
         THEN [storage |-> storage, limited |-> TRUE,
               response |-> TooManyRequests(
                   period - (current_time - rate_info.window_start))]
         ELSE [storage |-> Stored(storage, client_ip,
                                  [rate_info EXCEPT !.requests = @ + 1]),
               limited |-> FALSE, response |-> NoExc]
    ELSE [storage |-> Stored(storage, client_ip,
                             RateLimitInfo(1, current_time, current_time)),
          limited |-> FALSE, response |-> NoExc]

(* dispatch up to call_next: no await in between, so it runs undivided.     *)
(* The window is started again when it has elapsed, then the limit is       *)
(* looked at, then the request is counted                                   *)
dispatch(storage, client_ip, current_time) ==
    IF client_ip \in DOMAIN storage
    THEN LET old == storage[client_ip]
             rate_info == IF current_time - old.window_start > period
                          THEN [requests |-> 0, window_start |-> current_time]
                          ELSE old
         IN IF rate_info.requests >= calls
            THEN [storage |-> Stored(storage, client_ip, rate_info),
                  limited |-> TRUE,
                  response |-> TooManyRequests(
                      period - (current_time - rate_info.window_start))]
            ELSE [storage |-> Stored(storage, client_ip,
                                     [rate_info EXCEPT !.requests = @ + 1]),
                  limited |-> FALSE, response |-> NoExc]
    ELSE [storage |-> Stored(storage, client_ip,
                             RateLimitInfo(1, current_time, current_time)),
          limited |-> FALSE, response |-> NoExc]

(* The headers dispatch adds to the response that call_next returned *)
RateLimitHeaders(rate_info) ==
    [limit |-> calls,
     remaining |-> IF calls - rate_info.requests > 0
                   THEN calls - rate_info.requests ELSE 0,
     reset |-> rate_info.window_start + period]

----------------------------------------------------------------------------
(* Requests *)

(* Tokens a client can present: one minted by login, or one it made up *)
ForgedTokens ==
    {[sub |-> AdminUsername, exp |-> e, sig |-> FALSE] : e \in {0, MaxTime + TokenTTL}}

RequestTokens == tokens \cup ForgedTokens

ExtraKeys == {<<>>, [is_superuser |-> TRUE, is_active |-> FALSE]}

Merge(f, g) ==
    [k \in (DOMAIN f) \cup (DOMAIN g) |-> IF k \in DOMAIN g THEN g[k] ELSE f[k]]

UserCreateBodies ==
    {Merge([email |-> e, username |-> u, password |-> "pw123456"], x) :
        e \in Emails, u \in Usernames, x \in ExtraKeys}

FlagUpdateBodies ==
    {<<>>} \cup {[is_active |-> b] : b \in BOOLEAN}
           \cup {[is_superuser |-> b] : b \in BOOLEAN}

DeactivationBodies == {[is_active |-> FALSE]}

IdentityUpdateBodies ==
    {[username |-> u] : u \in Usernames \cup {Null}}
        \cup {[is_active |-> b] : b \in BOOLEAN}

UserUpdateBodies ==
    FlagUpdateBodies \cup IdentityUpdateBodies \cup {[email |-> e] : e \in Emails}

ItemCreateBodies ==
    {Merge([title |-> t], x) : t \in Titles, x \in {<<>>, [owner_id |-> 1]}}

ItemUpdateBodies ==
    {<<>>} \cup {[title |-> t] : t \in Titles \cup {NullTitle}}
           \cup {[owner_id |-> 1]}

DescribedCreateBodies ==
    {[title |-> t, description |-> d] : t \in Titles, d \in Descriptions}

PartialItemBodies ==
    {[title |-> <<"b", "b">>]}
        \cup {[description |-> d] : d \in Descriptions \cup {Null}}

PartialUserBodies == {[email |-> e] : e \in Emails \cup {Null}}

(* Every title a client can send, up to one character past the maximum *)
RawTitles == UNION {[1..n -> Chars] : n \in 0..(MaxTitleLength + 1)}

RawTitleBodies == {[title |-> t] : t \in RawTitles}

(* Registrations that can collide on one field only *)
RaceBodies ==
    {[email |-> e, username |-> u, password |-> "pw123456"] :
        e \in Emails \cup {"b@x.com"}, u \in Usernames \cup {"bob"}}

Request(op, tok, caller, id, username, email, password, out) ==
    [op |-> op, tok |-> tok, caller |-> caller, id |-> id, username |-> username,
     email |-> email, password |-> password, out |-> out, body |-> <<>>,
     fault |-> "", client_ip |-> ""]

(* The request with the update payload it carried, where the payload is kept *)
Sent(req, body, kept) ==
    [k \in DOMAIN req |-> IF k = "body" /\ kept THEN body ELSE req[k]]

(* The principal a request's token authenticates as (0: none) *)
Principal(tok) == get_current_user(users, tok, now).user.id

NoRequest == Request("", NoToken, 0, 0, "", "", "", NoExc)

(* The account the start-up hook creates and promotes in debug mode *)
BootstrapAdmin ==
    User(1, AdminEmail, AdminUsername, get_password_hash(AdminPassword), TRUE, TRUE)

(* The store once start-up has completed: the tables exist and hold the *)
(* configured admin account; nobody has logged in yet.                  *)
Init ==
    /\ users = {BootstrapAdmin}
    /\ nextUserId = Cardinality(users) + 1
    /\ items = {}
    /\ nextItemId = 1
    /\ tokens = {}
    /\ now = 0
    /\ last = NoRequest
    /\ pending = <<>>
    /\ issued = {}
    /\ lifespan = "serving"
    /\ rate_limit_storage = <<>>
    /\ forwarded = <<>>

Tick ==
    /\ now < MaxTime
    /\ now' = now + 1
    /\ last' = NoRequest
    /\ UNCHANGED <<users, items, nextUserId, nextItemId, tokens, pending,
                       issued, outside>>

(* POST /auth/login; where kept, the history notes whom the token was minted for *)
LoginWith(kept) ==
    \E username \in Usernames, password \in Passwords \cup {AdminPassword} :
        LET r == login(users, [username |-> username, password |-> password], now) IN
        /\ IsError(r.out) \/ r.token \in tokens \/ Cardinality(tokens) < MaxTokens
        /\ tokens' = IF IsError(r.out) THEN tokens ELSE tokens \cup {r.token}
        /\ issued' = IF IsError(r.out) \/ ~kept THEN issued
                      ELSE issued \cup {[token |-> r.token,
                                          id |-> get_user_by_username(users, username).id]}
        /\ last' = Request("login", IF IsError(r.out) THEN NoToken ELSE r.token,
                           0, 0, username, "", password, r.out)
        /\ UNCHANGED <<users, items, nextUserId, nextItemId, now, pending, outside>>

Login == LoginWith(FALSE)

LoginIssued == LoginWith(TRUE)

(* POST /auth/register *)
Register ==
    \E body \in UserCreateBodies :
        LET user_data == UserCreate(body)
            r == register(users, items, nextUserId, user_data)
        IN
        /\ r.users = users \/ nextUserId <= MaxUsers
        /\ users' = r.users
        /\ nextUserId' = IF r.users = users THEN nextUserId ELSE nextUserId + 1
        /\ last' = Request("register", NoToken, 0, 0, user_data.username,
                           user_data.email, "", r.out)
        /\ UNCHANGED <<items, nextItemId, tokens, now, pending,
                       issued, outside>>

(* POST /auth/register, first part: the handler runs its existence checks *)
(* and is suspended at the awaited write; other requests run meanwhile    *)
RegisterCheck ==
    \E body \in RaceBodies :
        LET user_data == UserCreate(body)
            out == register_precheck(users, user_data)
        IN
        /\ IsError(out) \/ Len(pending) < MaxPending
        /\ pending' = IF IsError(out) THEN pending ELSE Append(pending, user_data)
        /\ last' = IF IsError(out)
                   THEN Request("register", NoToken, 0, 0, user_data.username,
                                user_data.email, "", out)
                   ELSE NoRequest
        /\ UNCHANGED <<users, items, nextUserId, nextItemId, tokens, now,
                       issued, outside>>

(* POST /auth/register, second part: one suspended handler resumes, in any *)
(* order, and commits its insert                                           *)
RegisterWrite ==
    \E i \in 1..Len(pending) :
        LET user_data == pending[i]
            r == register_write(users, items, nextUserId, user_data)
        IN
        /\ r.users = users \/ nextUserId <= MaxUsers
        /\ users' = r.users
        /\ nextUserId' = IF r.users = users THEN nextUserId ELSE nextUserId + 1
        /\ pending' = SubSeq(pending, 1, i - 1) \o SubSeq(pending, i + 1, Len(pending))
        /\ last' = Request("register", NoToken, 0, 0, user_data.username,
                           user_data.email, "", r.out)
        /\ UNCHANGED <<items, nextItemId, tokens, now,
                       issued, outside>>

(* GET /users/me/ : the guard alone, returns the acting principal *)
ReadUsersMe ==
    \E tok \in RequestTokens :
        LET g == get_current_active_user(users, tok, now) IN
        /\ last' = Request("read_users_me", tok, Principal(tok), g.user.id, "", "", "", g.exc)
        /\ UNCHANGED <<users, items, nextUserId, nextItemId, tokens, now,
                       pending, issued, outside>>

(* POST /users/ : get_superuser, then UsersService.create_user *)
CreateUser ==
    \E tok \in RequestTokens, body \in UserCreateBodies :
        LET g == get_superuser(users, tok, now)
            user_data == UserCreate(body)
            r == IF IsError(g.exc) THEN [users |-> users, out |-> g.exc]
                 ELSE create_user(users, items, nextUserId, user_data, g.user)
        IN
        /\ r.users = users \/ nextUserId <= MaxUsers
        /\ users' = r.users
        /\ nextUserId' = IF r.users = users THEN nextUserId ELSE nextUserId + 1
        /\ last' = Request("create_user", NoToken, Principal(tok), 0, "", "", "", r.out)
        /\ UNCHANGED <<items, nextItemId, tokens, now, pending,
                       issued, outside>>

(* GET /users/ : get_superuser, then UsersService.get_users *)
ReadUsers ==
    \E tok \in RequestTokens :
        LET g == get_superuser(users, tok, now)
            out == IF IsError(g.exc) THEN g.exc ELSE get_users(users, g.user)
        IN
        /\ last' = Request("read_users", NoToken, Principal(tok), 0, "", "", "", out)
        /\ UNCHANGED <<users, items, nextUserId, nextItemId, tokens, now,
                       pending, issued, outside>>

(* GET /users/{user_id} : get_current_active_user, then get_user_by_id *)
ReadUser ==
    \E tok \in RequestTokens, user_id \in UserIds :
        LET g == get_current_active_user(users, tok, now)
            out == IF IsError(g.exc) THEN g.exc
                   ELSE get_user_by_id(users, user_id, g.user)
        IN
        /\ last' = Request("read_user", NoToken, Principal(tok), user_id, "", "", "", out)
        /\ UNCHANGED <<users, items, nextUserId, nextItemId, tokens, now,
                       pending, issued, outside>>

(* PUT /users/{user_id} : get_current_active_user, then update_user *)
UpdateUserWith(bodies, kept) ==
    \E tok \in RequestTokens, user_id \in UserIds, body \in bodies :
        LET g == get_current_active_user(users, tok, now)
            r == IF IsError(g.exc) THEN [users |-> users, out |-> g.exc]
                 ELSE update_user(users, items, user_id, UserUpdate(body), g.user)
        IN
        /\ users' = r.users
        /\ last' = Sent(Request("update_user", NoToken, Principal(tok), user_id,
                                "", "", "", r.out), body, kept)
        /\ UNCHANGED <<items, nextUserId, nextItemId, tokens, now, pending,
                       issued, outside>>

(* DELETE /users/{user_id} : get_superuser, then delete_user *)
DeleteUser ==
    \E tok \in RequestTokens, user_id \in UserIds, policy \in OnDeletePolicies :
        LET g == get_superuser(users, tok, now)
            r == IF IsError(g.exc)
                 THEN [users |-> users, items |-> items, out |-> g.exc]
                 ELSE delete_user(users, items, user_id, g.user, policy)
        IN
        /\ users' = r.users
        /\ items' = r.items
        /\ last' = Request("delete_user", NoToken, Principal(tok), user_id, "", "", "", r.out)
        /\ UNCHANGED <<nextUserId, nextItemId, tokens, now, pending,
                       issued, outside>>

(* POST /items/ : get_current_active_user, body validation, create_item *)
CreateItemWith(bodies) ==
    \E tok \in RequestTokens, body \in bodies :
        LET g == get_current_active_user(users, tok, now)
            r == IF IsError(g.exc) THEN [items |-> items, out |-> g.exc]
                 ELSE IF ~ItemCreateValid(body)
                 THEN [items |-> items, out |-> ValidationError]
                 ELSE create_item(users, items, nextItemId, ItemCreate(body), g.user)
        IN
        /\ r.items = items \/ nextItemId <= MaxItems
        /\ items' = r.items
        /\ nextItemId' = IF r.items = items THEN nextItemId ELSE nextItemId + 1
        /\ last' = Request("create_item", NoToken, Principal(tok), 0, "", "", "", r.out)
        /\ UNCHANGED <<users, nextUserId, tokens, now, pending,
                       issued, outside>>

(* PUT /items/{item_id} : get_current_active_user, body validation, update_item *)
UpdateItemWith(bodies, kept) ==
    \E tok \in RequestTokens, item_id \in ItemIds, body \in bodies :
        LET g == get_current_active_user(users, tok, now)
            r == IF IsError(g.exc) THEN [items |-> items, out |-> g.exc]
                 ELSE IF ~ItemUpdateValid(body)
                 THEN [items |-> items, out |-> ValidationError]
                 ELSE update_item(users, items, item_id, ItemUpdate(body), g.user)
        IN
        /\ items' = r.items
        /\ last' = Sent(Request("update_item", NoToken, Principal(tok), item_id,
                                "", "", "", r.out), body, kept)
        /\ UNCHANGED <<users, nextUserId, nextItemId, tokens, now, pending,
                       issued, outside>>

(* DELETE /items/{item_id} : get_current_active_user, then delete_item *)
DeleteItem ==
    \E tok \in RequestTokens, item_id \in ItemIds :
        LET g == get_current_active_user(users, tok, now)
            r == IF IsError(g.exc) THEN [items |-> items, out |-> g.exc]
                 ELSE delete_item(users, items, item_id, g.user)
        IN
        /\ items' = r.items
        /\ last' = Request("delete_item", NoToken, Principal(tok), item_id, "", "", "", r.out)
        /\ UNCHANGED <<users, nextUserId, nextItemId, tokens, now, pending,
                       issued, outside>>

(* GET /items/ : no guard dependency; whatever credentials the client sends *)
(* are not looked at                                                       *)
ReadItems ==
    \E tok \in RequestTokens \cup {NoToken} :
        /\ last' = Request("read_items", NoToken, Principal(tok), 0, "", "", "",
                           get_items(items))
        /\ UNCHANGED <<users, items, nextUserId, nextItemId, tokens, now,
                       pending, issued, outside>>

(* GET /items/{item_id} : no guard dependency *)
ReadItem ==
    \E tok \in RequestTokens \cup {NoToken}, item_id \in ItemIds :
        /\ last' = Request("read_item", NoToken, Principal(tok), item_id, "", "", "",
                           get_item_by_id(items, item_id))
        /\ UNCHANGED <<users, items, nextUserId, nextItemId, tokens, now,
                       pending, issued, outside>>

CreateItem == CreateItemWith(ItemCreateBodies)

UpdateItem == UpdateItemWith(ItemUpdateBodies, FALSE)

UpdateUser == UpdateUserWith(UserUpdateBodies, FALSE)

UpdateUserIdentity == UpdateUserWith(IdentityUpdateBodies, FALSE)

UpdateUserFlags == UpdateUserWith(FlagUpdateBodies, FALSE)

DeactivateUser == UpdateUserWith(DeactivationBodies, FALSE)

(* Items created and retitled with arbitrary text *)
CreateItemTitled == CreateItemWith(RawTitleBodies)

UpdateItemTitled == UpdateItemWith(RawTitleBodies, FALSE)

(* Creation and partial update with the optional description in play, the *)
(* update payload kept in the request record                              *)
CreateItemDescribed == CreateItemWith(DescribedCreateBodies)

UpdateItemPartial == UpdateItemWith(PartialItemBodies, TRUE)

UpdateUserPartial == UpdateUserWith(PartialUserBodies, TRUE)

(* The request with the place where the store failed while serving it *)
Faulted(req, at) ==
    [k \in DOMAIN req |-> IF k = "fault" THEN at ELSE req[k]]

(* Where the connection to the store is lost during a guarded request: at   *)
(* the principal lookup of the guard, or at the first store call of the     *)
(* service                                                                  *)
FaultPoints == {"authenticate", "service"}

(* POST /auth/login while the store is unreachable: get_user_by_username    *)
(* raises, nothing catches it, the request ends there                       *)
LoginStoreDown ==
    \E username \in Usernames, password \in Passwords \cup {AdminPassword} :
        /\ last' = Faulted(Request("login", NoToken, 0, 0, username, "", password,
                                   DatabaseError), "service")
        /\ UNCHANGED <<users, items, nextUserId, nextItemId, tokens, now, pending,
                       issued, outside>>

(* POST /auth/register while the store is unreachable: get_user_by_email raises *)
RegisterStoreDown ==
    \E body \in UserCreateBodies :
        LET user_data == UserCreate(body) IN
        /\ last' = Faulted(Request("register", NoToken, 0, 0, user_data.username,
                                   user_data.email, "", DatabaseError), "service")
        /\ UNCHANGED <<users, items, nextUserId, nextItemId, tokens, now, pending,
                       issued, outside>>

(* GET /users/me while the store is unreachable: the only store call is the *)
(* lookup in get_current_user, reached when the token verifies              *)
ReadUsersMeStoreDown ==
    \E tok \in RequestTokens :
        LET g == get_current_user_db(users, tok, now, FALSE) IN
        /\ last' = Faulted(Request("read_users_me", tok, 0, 0, "", "", "", g.exc),
                           IF verify_token(tok, now) # NoSubject
                           THEN "authenticate" ELSE "")
        /\ UNCHANGED <<users, items, nextUserId, nextItemId, tokens, now, pending,
                       issued, outside>>

(* DELETE /items/{item_id} with the store lost at the guard's lookup, or    *)
(* after the guard at item_repository.get; a request turned away before     *)
(* that point never meets the failure                                       *)
DeleteItemStoreDown ==
    \E tok \in RequestTokens, item_id \in ItemIds, at \in FaultPoints :
        LET down == get_current_user_db(users, tok, now, FALSE)
            g == get_current_active_user(users, tok, now)
            out == IF at = "authenticate" THEN down.exc
                   ELSE IF IsError(g.exc) THEN g.exc
                   ELSE DatabaseError
            met == IF at = "authenticate" THEN verify_token(tok, now) # NoSubject
                   ELSE ~IsError(g.exc)
        IN
        /\ last' = Faulted(Request("delete_item", tok, 0, item_id, "", "", "", out),
                           IF met THEN at ELSE "")
        /\ UNCHANGED <<users, items, nextUserId, nextItemId, tokens, now, pending,
                       issued, outside>>

(* lifespan of main.py in debug mode, one action per awaited store call.    *)
(* The process starts: the tables exist after create_all                    *)
LifespanStart ==
    /\ lifespan = "down"
    /\ lifespan' = "check"
    /\ UNCHANGED <<users, items, nextUserId, nextItemId, tokens, now, last,
                   pending, issued, rate_limit_storage, forwarded>>

(* admin_user = get_user_by_username(admin_username): with an account of    *)
(* that name in the store the hook logs "already exists" and start-up ends  *)
LifespanCheck ==
    /\ lifespan = "check"
    /\ lifespan' = IF get_user_by_username(users, AdminUsername) # NoUser
                   THEN "serving" ELSE "create"
    /\ UNCHANGED <<users, items, nextUserId, nextItemId, tokens, now, last,
                   pending, issued, rate_limit_storage, forwarded>>

(* create_user_with_hashed_password adds the row with is_superuser False    *)
(* and commits; an IntegrityError is caught by the hook, which logs it and  *)
(* lets start-up end                                                        *)
LifespanCreate ==
    /\ lifespan = "create"
    /\ LET user_data == [email |-> AdminEmail, username |-> AdminUsername,
                         password |-> AdminPassword]
           row == create_user_with_hashed_password(
                      nextUserId, user_data, get_password_hash(AdminPassword))
           c == CommitUsers(users \cup {row}, items, users)
       IN /\ users' = c.users
          /\ nextUserId' = IF c.ok THEN nextUserId + 1 ELSE nextUserId
          /\ lifespan' = IF c.ok THEN "promote" ELSE "serving"
    /\ UNCHANGED <<items, nextItemId, tokens, now, last, pending, issued,
                   rate_limit_storage, forwarded>>

(* the account is read again, is_superuser is set and committed; if the     *)
(* account is gone the AttributeError is caught like any other exception    *)
LifespanPromote ==
    /\ lifespan = "promote"
    /\ LET admin_user == get_user_by_username(users, AdminUsername) IN
       users' = IF admin_user = NoUser THEN users
                ELSE (users \ {admin_user})
                        \cup {[admin_user EXCEPT !.is_superuser = TRUE]}
    /\ lifespan' = "serving"
    /\ UNCHANGED <<items, nextUserId, nextItemId, tokens, now, last, pending,
                   issued, rate_limit_storage, forwarded>>

(* The process is killed while the hook runs; what was committed stays *)
LifespanInterrupt ==
    /\ lifespan \in {"check", "create", "promote"}
    /\ lifespan' = "down"
    /\ UNCHANGED <<users, items, nextUserId, nextItemId, tokens, now, last,
                   pending, issued, rate_limit_storage, forwarded>>

(* The serving process shuts down *)
LifespanShutdown ==
    /\ lifespan = "serving"
    /\ lifespan' = "down"
    /\ UNCHANGED <<users, items, nextUserId, nextItemId, tokens, now, last,
                   pending, issued, rate_limit_storage, forwarded>>

PromotionBodies == {[is_superuser |-> TRUE]}

PromoteUser == UpdateUserWith(PromotionBodies, FALSE)

(* DELETE /users/{user_id}, first part: get_superuser and the checks of     *)
(* delete_user run, then the handler is suspended at the awaited delete;    *)
(* other requests run meanwhile                                             *)
DeleteUserCheck ==
    \E tok \in RequestTokens, user_id \in UserIds :
        LET g == get_superuser(users, tok, now)
            exc == IF IsError(g.exc) THEN g.exc
                   ELSE delete_user_precheck(user_id, g.user)
        IN
        /\ IsError(exc) \/ Len(pending) < MaxPending
        /\ pending' = IF IsError(exc) THEN pending
                      ELSE Append(pending, [op |-> "delete_user", user_id |-> user_id,
                                            caller |-> g.user.id])
        /\ last' = IF IsError(exc)
                   THEN Request("delete_user", NoToken, Principal(tok), user_id,
                                "", "", "", exc)
                   ELSE NoRequest
        /\ UNCHANGED <<users, items, nextUserId, nextItemId, tokens, now,
                       issued, outside>>

(* DELETE /users/{user_id}, second part: one suspended handler resumes, in  *)
(* any order, and runs user_repository.delete                               *)
DeleteUserWrite ==
    \E i \in 1..Len(pending), policy \in OnDeletePolicies :
        LET req == pending[i]
            r == delete_user_write(users, items, req.user_id, policy)
        IN
        /\ users' = r.users
        /\ items' = r.items
        /\ pending' = SubSeq(pending, 1, i - 1) \o SubSeq(pending, i + 1, Len(pending))
        /\ last' = Request("delete_user", NoToken, req.caller, req.user_id,
                           "", "", "", r.out)
        /\ UNCHANGED <<nextUserId, nextItemId, tokens, now, issued, outside>>

(* The request as received from client_ip *)
From(req, client_ip) ==
    [k \in DOMAIN req |-> IF k = "client_ip" THEN client_ip ELSE req[k]]

(* The tally with one more call of call_next for the client's window *)
Tallied(tally, key) ==
    [k \in (DOMAIN tally) \cup {key} |->
        IF k = key THEN (IF key \in DOMAIN tally THEN tally[key] + 1 ELSE 1)
        ELSE tally[k]]

(* RateLimitMiddleware.dispatch, first part: a request arrives; it is       *)
(* answered 429, or counted and handed to call_next, where it stays while   *)
(* other requests arrive                                                    *)
Dispatch ==
    \E client_ip \in ClientIps :
        LET d == dispatch(rate_limit_storage, client_ip, now) IN
        /\ d.limited \/ Len(pending) < MaxPending
        /\ rate_limit_storage' = d.storage
        /\ pending' = IF d.limited THEN pending
                      ELSE Append(pending, [op |-> "dispatch", client_ip |-> client_ip])
        /\ forwarded' = IF d.limited THEN forwarded
                        ELSE Tallied(forwarded,
                                     <<client_ip, d.storage[client_ip].window_start>>)
        /\ last' = From(Request(IF d.limited THEN "dispatch" ELSE "call_next",
                                NoToken, 0, 0, "", "", "", d.response), client_ip)
        /\ UNCHANGED <<users, items, nextUserId, nextItemId, tokens, now, issued,
                       lifespan>>

(* RateLimitMiddleware.dispatch, second part: call_next has returned for    *)
(* one of the requests in flight; the headers are computed from the         *)
(* client's entry as it is now                                              *)
DispatchRespond ==
    \E i \in 1..Len(pending) :
        LET client_ip == pending[i].client_ip
            rate_info == rate_limit_storage[client_ip]
            served == Returned(200)
            response == [status |-> served.status, detail |-> served.detail,
                         code |-> served.code, hdr |-> served.hdr,
                         ratelimit |-> RateLimitHeaders(rate_info)]
        IN
        /\ pending' = SubSeq(pending, 1, i - 1) \o SubSeq(pending, i + 1, Len(pending))
        /\ last' = From(Request("dispatch", NoToken, 0, 0, "", "", "", response),
                        client_ip)
        /\ UNCHANGED <<users, items, nextUserId, nextItemId, tokens, now, issued,
                       outside>>

(* Every operation, every input *)
Next ==
    \/ Tick
    \/ Login
    \/ Register
    \/ ReadUsersMe
    \/ CreateUser
    \/ ReadUsers
    \/ ReadUser
    \/ UpdateUser
    \/ DeleteUser
    \/ CreateItem
    \/ UpdateItem
    \/ DeleteItem
    \/ ReadItems
    \/ ReadItem

Spec == Init /\ [][Next]_vars

(* Token lifetime and identity: the clock runs, accounts are renamed,      *)
(* disabled and deleted.                                                   *)
NextAuth ==
    \/ Tick
    \/ Login
    \/ Register
    \/ ReadUsersMe
    \/ UpdateUserIdentity

SpecAuth == Init /\ [][NextAuth]_vars

(* User administration, all within one token lifetime *)
NextUsers ==
    \/ Login
    \/ Register
    \/ CreateUser
    \/ ReadUsers
    \/ ReadUser
    \/ UpdateUser
    \/ DeleteUser

SpecUsers == Init /\ [][NextUsers]_vars

(* Item operations, all within one token lifetime *)
NextItems ==
    \/ Login
    \/ Register
    \/ UpdateUserFlags
    \/ CreateItem
    \/ UpdateItem
    \/ DeleteItem

SpecItems == Init /\ [][NextItems]_vars

(* Partial updates of items and users *)
NextFrame ==
    \/ Login
    \/ Register
    \/ CreateItemDescribed
    \/ UpdateItemPartial
    \/ UpdateUserPartial

SpecFrame == Init /\ [][NextFrame]_vars

(* Registrations whose handlers interleave at the awaited store calls *)
NextRace ==
    \/ Login
    \/ RegisterCheck
    \/ RegisterWrite

SpecRace == Init /\ [][NextRace]_vars

(* Tokens outliving their principal: the clock runs, accounts are disabled *)
(* and deleted                                                            *)
NextSession ==
    \/ Tick
    \/ Login
    \/ Register
    \/ ReadUsersMe
    \/ DeactivateUser
    \/ DeleteUser

SpecSession == Init /\ [][NextSession]_vars

(* Item writes by the bootstrap admin and the registered principals *)
NextOwner ==
    \/ Login
    \/ Register
    \/ CreateItem
    \/ UpdateItem
    \/ DeleteItem

SpecOwner == Init /\ [][NextOwner]_vars

(* Tokens that expire, or outlive their principal, while the clock runs *)
NextExpiry ==
    \/ Tick
    \/ Login
    \/ Register
    \/ ReadUsersMe
    \/ DeleteUser

SpecExpiry == Init /\ [][NextExpiry]_vars

(* Every guarded write, while accounts are disabled *)
NextGuard ==
    \/ Login
    \/ Register
    \/ DeactivateUser
    \/ CreateUser
    \/ DeleteUser
    \/ CreateItem
    \/ UpdateItem
    \/ DeleteItem

SpecGuard == Init /\ [][NextGuard]_vars

(* Item titles as clients type them *)
NextTitles ==
    \/ Login
    \/ CreateItemTitled
    \/ UpdateItemTitled

SpecTitles == Init /\ [][NextTitles]_vars

(* Reading items while accounts are created and disabled *)
NextRead ==
    \/ Login
    \/ Register
    \/ UpdateUserFlags
    \/ CreateItem
    \/ ReadItems
    \/ ReadItem

SpecRead == Init /\ [][NextRead]_vars

(* Requests served while the connection to the store comes and goes *)
NextFault ==
    \/ Tick
    \/ Login
    \/ Register
    \/ LoginStoreDown
    \/ RegisterStoreDown
    \/ ReadUsersMeStoreDown
    \/ DeleteItemStoreDown

SpecFault == Init /\ [][NextFault]_vars

(* The store before the service has ever started on it: empty tables *)
InitBoot ==
    /\ users = {}
    /\ nextUserId = 1
    /\ items = {}
    /\ nextItemId = 1
    /\ tokens = {}
    /\ now = 0
    /\ last = NoRequest
    /\ pending = <<>>
    /\ issued = {}
    /\ lifespan = "down"
    /\ rate_limit_storage = <<>>
    /\ forwarded = <<>>

(* Start-up, interrupted or not, next to the login and register requests    *)
(* that other instances of the service handle on the same store             *)
NextBoot ==
    \/ LifespanStart
    \/ LifespanCheck
    \/ LifespanCreate
    \/ LifespanPromote
    \/ LifespanInterrupt
    \/ LifespanShutdown
    \/ Login
    \/ Register

SpecBoot == InitBoot /\ [][NextBoot]_vars

(* Tokens in use while accounts are registered and renamed *)
NextToken ==
    \/ LoginIssued
    \/ Register
    \/ UpdateUserIdentity
    \/ ReadUsersMe

SpecToken == Init /\ [][NextToken]_vars

(* Deletions of users whose handlers interleave at the awaited store calls *)
NextDeleteRace ==
    \/ Login
    \/ Register
    \/ PromoteUser
    \/ DeleteUserCheck
    \/ DeleteUserWrite

SpecDeleteRace == Init /\ [][NextDeleteRace]_vars

(* Requests of several clients passing the rate limiter while the clock runs *)
NextRate ==
    \/ Tick
    \/ Dispatch
    \/ DispatchRespond

SpecRate == Init /\ [][NextRate]_vars

----------------------------------------------------------------------------
(* Error kinds of the specification, as outcomes of the code *)

InvalidLogin == HTTPException(401, "Invalid username or password", "Bearer")

AccountDisabled == HTTPException(401, "Account is disabled", "")

IsInsufficientPermissions(out) ==
    out.status = 403 /\ out.detail = "Not enough permissions"

IsNotFound(out) == out.status = 404

DuplicateEmail == HTTPException(409, "Email already registered", "")

DuplicateUsername == HTTPException(409, "Username already taken", "")

Succeeded(out) == out.status \in {200, 201}

----------------------------------------------------------------------------
(* C1: for every existing item X and every active principal P, update_item *)
(* and delete_item on X succeed when P owns X or P is an admin, and fail   *)
(* with InsufficientPermissions (403) when P is neither.                   *)
C1_OwnerOrAdminMutatesItem ==
    [][(/\ last'.op \in {"update_item", "delete_item"}
        /\ last'.caller # 0
        /\ get(users, last'.caller, NoUser).is_active
        /\ get(items, last'.id, NoItem) # NoItem)
       => LET P == get(users, last'.caller, NoUser)
              X == get(items, last'.id, NoItem)
          IN IF X.owner_id = P.id \/ P.is_superuser
             THEN Succeeded(last'.out)
             ELSE IsInsufficientPermissions(last'.out) /\ items' = items]_vars

----------------------------------------------------------------------------
(* The acting principal of the last request, in the store before it ran *)
Caller == get(users, last'.caller, NoUser)

ActiveCaller == last'.caller # 0 /\ Caller.is_active

NonAdminCaller == ActiveCaller /\ ~Caller.is_superuser

AdminCaller == ActiveCaller /\ Caller.is_superuser

(* C2: for every active principal P, login with P's username and password  *)
(* succeeds and returns a token T for which authenticate, at every instant *)
(* before T's expiry, returns P; authenticate itself changes nothing, so   *)
(* repeating it gives the same answer.                                     *)
C2_LoginThenAuthenticate ==
    [][/\ last'.op = "login" =>
            \A P \in users :
                (/\ P.is_active
                 /\ P.username = last'.username
                 /\ verify_password(last'.password, P.hashed_password))
                => /\ Succeeded(last'.out)
                   /\ last'.tok \in tokens'
                   /\ \A t \in now..(MaxTime + TokenTTL) :
                         t < last'.tok.exp =>
                            get_current_user(users', last'.tok, t)
                                = [user |-> P, exc |-> NoExc]
       /\ last'.op = "read_users_me" =>
            /\ UNCHANGED <<users, items, tokens, now>>
            /\ Succeeded(last'.out) => last'.id = last'.caller
      ]_vars

(* a registered principal has logged in and authenticate returned it *)
C2_Witness ==
    /\ last.op = "read_users_me"
    /\ last.tok \in tokens
    /\ Succeeded(last.out)
    /\ last.id = 2
    /\ \E u \in users : u.id = 2 /\ u.username = last.tok.sub

(* C3: authenticate on a token whose expiry is in the past fails with      *)
(* InvalidCredentials (401), whatever its signature and whether or not the *)
(* subject exists and is active.                                            *)
C3_ExpiredTokenRejected ==
    [][(last'.op = "read_users_me" /\ last'.tok.exp < now)
       => last'.out = credentials_exception /\ last'.out.status = 401]_vars

(* an expired, validly signed token of an existing, active principal *)
C3_Witness ==
    /\ last.op = "read_users_me"
    /\ last.tok \in tokens
    /\ last.tok.exp < now
    /\ \E u \in users : u.username = last.tok.sub /\ u.is_active
    /\ last.out.status = 401

(* C4: register with the e-mail of an existing principal fails with         *)
(* DuplicateEmail whether or not the username collides too; with a fresh    *)
(* e-mail and an existing username it fails with DuplicateUsername; nothing *)
(* is written in either case.                                               *)
C4_RegisterDuplicates ==
    [][last'.op = "register" =>
         LET email_taken == \E u \in users : u.email = last'.email
             username_taken == \E u \in users : u.username = last'.username
         IN /\ email_taken => last'.out = DuplicateEmail /\ users' = users
            /\ (~email_taken /\ username_taken)
                   => last'.out = DuplicateUsername /\ users' = users
      ]_vars

(* e-mail and username both collide, and the e-mail conflict is reported *)
C4_Witness ==
    /\ last.op = "register"
    /\ last.out = DuplicateEmail
    /\ \E u \in users : u.username = last.username
    /\ \E u \in users : u.email = last.email

(* C5: every principal created by register or by the admin create_user is *)
(* stored with admin = false and active = true, whatever the payload held. *)
C5_CreatedPrincipalFlags ==
    [][last'.op \in {"register", "create_user"} =>
         /\ \A u \in users' \ users : u.is_active /\ ~u.is_superuser
         /\ Succeeded(last'.out) => Cardinality(users' \ users) = 1
      ]_vars

(* the admin endpoint has created a principal *)
C5_Witness ==
    /\ last.op = "create_user"
    /\ Succeeded(last.out)
    /\ \E u \in users : u.id = nextUserId - 1 /\ u.is_active /\ ~u.is_superuser

(* C6: delete_user by an admin on the admin's own id fails with an error   *)
(* that is neither InsufficientPermissions nor NotFound, and the account    *)
(* stays.                                                                   *)
C6_AdminSelfDelete ==
    [][(last'.op = "delete_user" /\ AdminCaller /\ last'.id = last'.caller)
       => /\ IsError(last'.out)
          /\ ~IsInsufficientPermissions(last'.out)
          /\ ~IsNotFound(last'.out)
          /\ last'.out.status \notin {401, 403, 404}
          /\ Caller \in users'
          /\ users' = users
      ]_vars

(* an admin has asked to delete its own account *)
C6_Witness ==
    /\ last.op = "delete_user"
    /\ last.caller # 0
    /\ last.id = last.caller
    /\ last.out.status = 400
    /\ \E u \in users : u.id = last.caller /\ u.is_superuser

(* C7: login answers an unknown username and a known username with a wrong *)
(* password with the same outcome: status, message and headers.            *)
C7_LoginFailureIndistinguishable ==
    \A u1, u2 \in Usernames, p1, p2 \in Passwords \cup {AdminPassword} :
        LET user2 == get_user_by_username(users, u2) IN
        (/\ get_user_by_username(users, u1) = NoUser
         /\ user2 # NoUser
         /\ ~verify_password(p2, user2.hashed_password))
        => login(users, [username |-> u1, password |-> p1], now).out
             = login(users, [username |-> u2, password |-> p2], now).out

(* a failed login for an unknown username while another username exists *)
C7_Witness ==
    /\ last.op = "login"
    /\ last.out = InvalidLogin
    /\ get_user_by_username(users, last.username) = NoUser
    /\ users # {}

(* C8: login fails with AccountDisabled exactly when the principal exists, *)
(* the password verifies and active is false; an inactive principal with a *)
(* wrong password gets InvalidCredentials; no token is minted for a        *)
(* principal that is inactive at login time.                               *)
C8_AccountDisabled ==
    [][last'.op = "login" =>
         LET user == get_user_by_username(users, last'.username)
             verified == /\ user # NoUser
                         /\ verify_password(last'.password, user.hashed_password)
             inactive == user # NoUser /\ ~user.is_active
         IN /\ last'.out = AccountDisabled <=> (verified /\ inactive)
            /\ (inactive /\ ~verified) => last'.out = InvalidLogin
            /\ inactive => tokens' = tokens /\ last'.tok = NoToken
      ]_vars

(* an inactive principal has presented its right password *)
C8_Witness ==
    /\ last.op = "login"
    /\ last.out = AccountDisabled
    /\ \E u \in users : u.username = last.username /\ ~u.is_active

(* C9: a non-admin active principal calling list users, create user or     *)
(* delete user gets InsufficientPermissions (403), never 401 or 404, and   *)
(* no principal is created or deleted.                                      *)
C9_AdminOnlyOperations ==
    [][(last'.op \in {"read_users", "create_user", "delete_user"} /\ NonAdminCaller)
       => /\ IsInsufficientPermissions(last'.out)
          /\ last'.out.status \notin {401, 404}
          /\ users' = users
      ]_vars

(* a non-admin active principal has asked to delete an existing user *)
C9_Witness ==
    /\ last.op = "delete_user"
    /\ last.out.status = 403
    /\ \E u \in users : u.id = last.caller /\ u.is_active /\ ~u.is_superuser
    /\ \E u \in users : u.id = last.id /\ u.id # last.caller

(* C10: for a non-admin principal P and a user_id other than P's, read user *)
(* and update user answer InsufficientPermissions whether or not the target *)
(* exists, and the target is unchanged.                                     *)
C10_OtherProfileForbidden ==
    [][(/\ last'.op \in {"read_user", "update_user"}
        /\ NonAdminCaller
        /\ last'.id # last'.caller)
       => /\ IsInsufficientPermissions(last'.out)
          /\ users' = users
      ]_vars

(* a non-admin principal has asked to update a user that does not exist *)
C10_Witness ==
    /\ last.op = "update_user"
    /\ last.out.status = 403
    /\ \E u \in users : u.id = last.caller /\ u.is_active /\ ~u.is_superuser
    /\ last.id # last.caller
    /\ \A u \in users : u.id # last.id

(* C11: update_item and delete_item on an item id that does not exist       *)
(* answer NotFound for every active caller, admin or not; the existence     *)
(* check comes before the ownership check, so InsufficientPermissions is    *)
(* answered only for items that exist.                                      *)
C11_MissingItemNotFound ==
    [][(last'.op \in {"update_item", "delete_item"} /\ ActiveCaller)
       => LET X == get(items, last'.id, NoItem) IN
          /\ X = NoItem => /\ last'.out = HTTPException(404, "Item not found", "")
                           /\ items' = items
          /\ IsInsufficientPermissions(last'.out) => X # NoItem
      ]_vars

(* a non-admin principal that owns nothing has asked to update a missing item *)
C11_Witness ==
    /\ last.op = "update_item"
    /\ IsNotFound(last.out)
    /\ \E u \in users : u.id = last.caller /\ u.is_active /\ ~u.is_superuser
    /\ \A i \in items : i.owner_id # last.caller /\ i.id # last.id
    /\ items # {}

(* C12: list items and get item by id hand out item data only to an        *)
(* authenticated active principal; a request without a valid token, or     *)
(* from an inactive principal, never obtains item data.                    *)
C12_ReadItemNeedsActivePrincipal ==
    [][(last'.op \in {"read_items", "read_item"} /\ ~ActiveCaller)
       => ~(Succeeded(last'.out) /\ items # {})]_vars

(* C13: each item's owner_id is the id of the principal that created it:   *)
(* create_item stores the acting principal's id whatever the payload says,  *)
(* and no later operation, update_item by owner or admin included, changes  *)
(* an item's owner_id or id.                                                *)
C13_OwnerIsCreator ==
    [][/\ \A i \in items, j \in items' : i.id = j.id => j.owner_id = i.owner_id
       /\ \A j \in items' :
             (\A i \in items : i.id # j.id)
             => /\ last'.op = "create_item"
                /\ j.id = nextItemId
                /\ j.owner_id = last'.caller
       /\ last'.op = "update_item" => {j.id : j \in items'} = {i.id : i \in items}
      ]_vars

(* an admin has updated an item created by another principal, who still owns it *)
C13_Witness ==
    /\ last.op = "update_item"
    /\ Succeeded(last.out)
    /\ \E i \in items : i.id = last.id /\ i.owner_id # last.caller /\ i.owner_id # 1

(* Fields of the update schemas that are columns of the row *)
ItemUpdateFields == {"title", "description"}

UserUpdateFields == {"email", "username", "is_active", "is_superuser"}

(* The row with the payload's fields set and every other field as it was *)
Patched(row, payload, fields) ==
    [c \in DOMAIN row |->
        IF c \in (DOMAIN payload) \cap fields THEN payload[c] ELSE row[c]]

C16_RaceLoserGetsDuplicate ==
    [][(last'.op = "register" /\ Len(pending') < Len(pending))
       => LET email_taken == \E u \in users : u.email = last'.email
              username_taken == \E u \in users : u.username = last'.username
          IN /\ email_taken => last'.out = DuplicateEmail /\ users' = users
             /\ (~email_taken /\ username_taken)
                    => last'.out = DuplicateUsername /\ users' = users
             /\ (~email_taken /\ ~username_taken)
                    => Succeeded(last'.out) /\ Cardinality(users') = Cardinality(users) + 1
      ]_vars

(* C17: authenticate has one InvalidCredentials outcome (status, message,  *)
(* error code) for every way a token can fail: malformed, tampered         *)
(* signature, expired, or a subject that matches no principal.             *)
C17_SingleInvalidOutcome ==
    \A tok \in RequestTokens \cup {NoToken} :
        LET g == get_current_user(users, tok, now) IN
        IF verify_token(tok, now) # NoSubject
           /\ get_user_by_username(users, verify_token(tok, now)) # NoUser
        THEN g.exc = NoExc
        ELSE g = [user |-> NoUser, exc |-> credentials_exception]

(* a tampered token has just been refused while the clients also hold an   *)
(* expired token and an unexpired token whose principal is gone            *)
C17_Witness ==
    /\ last.op = "read_users_me"
    /\ last.tok \in ForgedTokens
    /\ last.out = credentials_exception
    /\ \E t1, t2 \in tokens :
          /\ t1.exp < now
          /\ t2.exp >= now
          /\ get_user_by_username(users, t2.sub) = NoUser
          /\ get_current_user(users, t1, now).exc
                = get_current_user(users, t2, now).exc

(* C18: after a principal P is deleted, authenticate on a token issued to P *)
(* fails with InvalidCredentials for as long as no principal has P's        *)
(* username; a token whose principal exists but is inactive is rejected as  *)
(* forbidden (403), not as InvalidCredentials.                              *)
C18_DeletedThenInactive ==
    [][(last'.op = "read_users_me" /\ last'.tok \in tokens /\ last'.tok.exp >= now)
       => LET P == get_user_by_username(users, last'.tok.sub) IN
          /\ P = NoUser => last'.out = credentials_exception
          /\ (P # NoUser /\ ~P.is_active)
                => /\ last'.out.status = 403
                   /\ last'.out.code = "USER_INACTIVE"
                   /\ last'.out # credentials_exception
          /\ (P # NoUser /\ P.is_active) => Succeeded(last'.out) /\ last'.id = P.id
      ]_vars

(* the unexpired token of a deleted principal has been refused *)
C18_Witness ==
    /\ last.op = "read_users_me"
    /\ last.tok \in tokens
    /\ last.tok.exp >= now
    /\ last.tok.sub # AdminUsername
    /\ \A u \in users : u.username # last.tok.sub
    /\ last.out.status = 401

(* C19: no create, update or delete of an item or a user is applied to the *)
(* store for a request whose principal was inactive when the guard looked  *)
(* at it: the request ends with a forbidden error and the store is as it   *)
(* was.                                                                    *)
C19_InactiveNeverMutates ==
    [][(/\ last'.op \in {"create_user", "update_user", "delete_user",
                          "create_item", "update_item", "delete_item"}
        /\ last'.caller # 0
        /\ ~Caller.is_active)
       => /\ last'.out.status = 403
          /\ users' = users
          /\ items' = items
          /\ nextUserId' = nextUserId
          /\ nextItemId' = nextItemId
      ]_vars

(* a disabled principal holding an unexpired token has asked to delete an  *)
(* item it owns                                                            *)
C19_Witness ==
    /\ last.op = "delete_item"
    /\ last.out.status = 403
    /\ \E u \in users : u.id = last.caller /\ ~u.is_active
    /\ \E i \in items : i.id = last.id /\ i.owner_id = last.caller

(* C20: in every reachable state, after any sequence of create_item and    *)
(* update_item operations, every stored item title is non-empty, has no    *)
(* leading or trailing whitespace, and is between 1 and the maximum number *)
(* of characters long.                                                     *)
C20_StoredTitlesTrimmed ==
    \A i \in items :
        /\ i.title # NullTitle
        /\ Len(i.title) >= 1
        /\ Len(i.title) <= MaxTitleLength
        /\ strip(i.title) = i.title

(* C21: a store failure during any core operation, the principal lookup of  *)
(* authenticate included, ends the request with the generic internal        *)
(* failure; it is never reported as InvalidCredentials,                     *)
(* InsufficientPermissions, NotFound or a duplicate conflict.               *)
C21_StoreFailureIsInternal ==
    last.fault # ""
        => /\ last.out = DatabaseError
           /\ last.out # credentials_exception
           /\ last.out.status \notin {401, 403, 404, 409}

(* C22: while the start-up hook creates the configured admin account and    *)
(* then promotes it, no reader of the store finds the account with          *)
(* is_superuser false: between the two steps the committed store never      *)
(* holds the account unpromoted.                                            *)
C22_BootstrapNeverUnpromoted ==
    lifespan = "promote"
        => \A u \in users : u.username = AdminUsername => u.is_superuser

(* C23: whenever start-up in debug mode has completed, the store holds a    *)
(* principal with the configured admin username and that principal is an    *)
(* admin, also after an interrupted earlier start-up and when the username  *)
(* was taken before.                                                        *)
C23_StartedWithAdmin ==
    lifespan = "serving"
        => \E u \in users : u.username = AdminUsername /\ u.is_superuser

(* C24: a token that login issued to principal P never authenticates as a   *)
(* principal with another id, whatever happened in between (P renamed or    *)
(* deleted, another principal registered under or renamed to P's former     *)
(* username). Tokens minted for one principal only are looked at.           *)
C24_TokenKeepsItsPrincipal ==
    (last.op = "read_users_me" /\ Succeeded(last.out))
        => \A r \in issued :
              (/\ r.token = last.tok
               /\ \A q \in issued : q.token = r.token => q.id = r.id)
              => last.id = r.id

(* C25: a principal's admin flag is raised only by an operation that an     *)
(* admin performs; no register, login, own-profile update or item           *)
(* operation issued by a non-admin principal makes any principal an admin.  *)
C25_OnlyAdminMakesAdmin ==
    [][\A u \in users' :
          (u.is_superuser /\ \A v \in users : v.id = u.id => ~v.is_superuser)
          => AdminCaller
      ]_vars

(* C26: every operation that ends in an error outcome (InvalidCredentials,  *)
(* AccountDisabled, InsufficientPermissions, NotFound, DuplicateEmail,      *)
(* DuplicateUsername, the admin self-delete error) leaves the principal     *)
(* table and the item table exactly as they were before the operation.      *)
C26_ErrorLeavesTablesAlone ==
    [][IsError(last'.out) => (users' = users /\ items' = items)]_vars

(* a principal that is no admin has been refused the deletion of an item    *)
(* it does not own, and the item is still there                             *)
C26_Witness ==
    /\ last.op = "delete_item"
    /\ IsInsufficientPermissions(last.out)
    /\ \E i \in items : i.id = last.id /\ i.owner_id # last.caller
    /\ \E u \in users : u.id = last.caller /\ ~u.is_superuser

(* C27: every item's owner_id refers to a principal in the principal table, *)
(* also after an admin's delete_user on a principal that owns items: the    *)
(* delete removes or re-homes those items, or fails and leaves both tables  *)
(* unchanged.                                                               *)
C27_OwnerExists ==
    [][/\ \A i \in items' : \E u \in users' : u.id = i.owner_id
       /\ (last'.op = "delete_user" /\ \E i \in items : i.owner_id = last'.id)
          => \/ /\ Succeeded(last'.out)
                /\ \A u \in users' : u.id # last'.id
                /\ \A i \in items' : i.owner_id # last'.id
             \/ /\ IsError(last'.out)
                /\ users' = users
                /\ items' = items
      ]_vars

(* an admin's delete_user on a principal that owns an item has been refused *)
(* by the store; the principal and the item are both still there            *)
C27_Witness ==
    /\ last.op = "delete_user"
    /\ last.out = IntegrityError
    /\ \E u \in users : u.id = last.id
    /\ \E i \in items : i.owner_id = last.id

(* C28: starting with at least one admin, under any sequence and any        *)
(* interleaving of delete_user requests, each authenticated as an admin     *)
(* when its guard ran, at least one admin principal remains in the store.   *)
C28_AnAdminRemains ==
    \E u \in users : u.is_superuser

(* C29: for every client and every window, under any interleaving of        *)
(* requests, the client's counter never exceeds calls and at most calls     *)
(* requests are handed to call_next; a request arriving when the counter    *)
(* has reached calls is answered 429, is not handed on, and leaves the      *)
(* counter and window_start as they were.                                   *)
C29_CounterWithinLimit ==
    [][/\ \A ip \in DOMAIN rate_limit_storage' :
             rate_limit_storage'[ip].requests <= calls
       /\ \A k \in DOMAIN forwarded' : forwarded'[k] <= calls
       /\ (last'.op = "dispatch" /\ last'.out.status = 429)
          => /\ last'.client_ip \in DOMAIN rate_limit_storage
             /\ rate_limit_storage[last'.client_ip].requests >= calls
             /\ rate_limit_storage' = rate_limit_storage
             /\ forwarded' = forwarded
             /\ pending' = pending
       /\ (last'.op = "call_next" /\ last'.client_ip \in DOMAIN rate_limit_storage)
          => LET old == rate_limit_storage[last'.client_ip] IN
             old.requests < calls \/ now - old.window_start > period
      ]_vars

(* a client at its limit has been answered 429 while both of the requests   *)
(* it was allowed are still in flight downstream                            *)
C29_Witness ==
    /\ last.op = "dispatch"
    /\ last.out.status = 429
    /\ rate_limit_storage[last.client_ip].requests = calls
    /\ Len(pending) = calls
    /\ \A i \in 1..Len(pending) : pending[i].client_ip = last.client_ip

(* C30: a rate-limited client is admitted again once the window has         *)
(* elapsed: the first request arriving more than period after window_start  *)
(* starts the counter and the window again and is handed on (the counter    *)
(* becomes 1), and every 429 response carries a retry_after between 0 and   *)
(* period.                                                                  *)
C30_AdmittedAfterWindow ==
    [][/\ \A ip \in DOMAIN rate_limit_storage :
             (/\ last'.op \in {"dispatch", "call_next"}
              /\ last'.client_ip = ip
              /\ rate_limit_storage' # rate_limit_storage \/ last'.out.status = 429
              /\ now - rate_limit_storage[ip].window_start > period)
             => /\ last'.op = "call_next"
                /\ rate_limit_storage'[ip] = [requests |-> 1, window_start |-> now]
                /\ forwarded'[<<ip, now>>] = 1
       /\ (last'.op = "dispatch" /\ last'.out.status = 429)
          => (last'.out.retry_after >= 0 /\ last'.out.retry_after <= period)
      ]_vars

(* a client that had used up its window has been admitted again after the   *)
(* window elapsed                                                           *)
C30_Witness ==
    /\ last.op = "call_next"
    /\ rate_limit_storage[last.client_ip] = [requests |-> 1, window_start |-> now]
    /\ now > period
    /\ \E k \in DOMAIN forwarded :
          k[1] = last.client_ip /\ k[2] < now /\ forwarded[k] = calls

====
